---- MODULE Spec2Model ----
(***************************************************************************)
(* A model of the shared utility layer of ai_agents_module1:               *)
(*   src/src/error_handling.py   retry_on_error, safe_execute,             *)
(*                               log_execution_time, handle_errors         *)
(*   src/src/exceptions.py       the exception hierarchy                   *)
(*   src/src/topic_validation.py _validate_topic                           *)
(*   src/src/logging_config.py   setup_logging                             *)
(* and of the workflow that uses it:                                       *)
(*   src/examples/01_langchain_v1.py  LangChain1Agent.research             *)
(*                                                                         *)
(* Durations (delay, current_delay, time.time()) are integers in an        *)
(* arbitrary time unit.  The logger is modelled by the events each         *)
(* execution appends to it, in the order that execution emits them.        *)
(***************************************************************************)
EXTENDS Integers, Sequences, FiniteSets, TLC

(* ---------------------------------------------------------------- bounds *)
\* max_retries ranges over -1 .. MaxRetries
MaxRetries == 3
\* delay ranges over 0 .. MaxDelay
MaxDelay == 2
\* backoff ranges over 1 .. MaxBackoff
MaxBackoff == 2

\* a short topic is the concatenation of at most MaxPieces pieces
MaxPieces == 3

\* the calls of safe_execute, and of a timed function, in one behaviour
MaxCalls == 2

\* the dict and list objects allocated in one behaviour
MaxObjects == 3
\* the errors constructed in one behaviour
MaxInstances == 2
\* a list held as a detail value has at most MaxListLen elements
MaxListLen == 1

\* the calls of setup_logging in one behaviour
MaxSetups == 3
\* a call of a timed function lasts 0 .. MaxDuration
MaxDuration == 2

(* ------------------------------------------------- exceptions.py classes *)
\* the direct base class of each exception class the model raises or catches
BaseOf(c) ==
    CASE c = "AIAgentsError" -> "Exception"
      [] c \in {"ConfigurationError", "APIKeyError", "ModelError",
                "ToolError", "ResearchError", "ValidationError",
                "FileOperationError", "NetworkError",
                "AgentExecutionError"} -> "AIAgentsError"
      [] c = "ValueError"    -> "Exception"
      [] OTHER               -> "Exception"

\* isinstance(error of class c, cls)
IsInstance(c, cls) ==
    \/ c = cls
    \/ BaseOf(c) = cls
    \/ BaseOf(BaseOf(c)) = cls

\* the classes of the errors a wrapped operation raises in the model
RaisedKinds == {"ToolError", "ValueError"}

\* the values of the `exceptions` parameter the model draws from:
\* the default (Exception,) and a tuple of two project classes
ExceptionTuples == {{"Exception"}, {"ToolError", "NetworkError"}}

\* Python's None
None == [value |-> "None"]

(* ------------------------------------------------------------ the state *)
\* the executions of the wrapper (calls of one wrapped function)
Execs == {"e1", "e2"}

VARIABLES
    policy,          \* the arguments of retry_on_error, closed over by wrapper
    pc,              \* where each execution of wrapper is
    attempt,         \* the loop variable of each execution
    current_delay,   \* the local of each execution
    last_exception,  \* the local of each execution
    history,         \* the outcome of each invocation of func, per execution
    sleeps,          \* the arguments of time.sleep, per execution
    events,          \* the events logged, per execution
    outcome,         \* what wrapper returned or raised, per execution
    safe,            \* the call of safe_execute: its arguments and position
    safe_events,     \* the events safe_execute logged
    timed,           \* the call of a function wrapped by log_execution_time
    timed_events,    \* the events log_execution_time logged
    now,             \* time.time()
    topic_arg,       \* the argument of _validate_topic
    topic_pc,        \* where the call of _validate_topic is
    topic_ret,       \* what _validate_topic returned or raised
    topic_calls,     \* the calls of _validate_topic so far
    research,        \* the call of LangChain1Agent.research: locals, position
    heap,            \* the dict and list objects, by reference
    instances,       \* the AIAgentsError instances constructed so far
    caller_refs,     \* the dicts held by the code that constructs errors
    handled,         \* the call of a function wrapped by handle_errors
    root_logger,     \* logging.getLogger(): its level and handlers
    setup            \* the calls of setup_logging so far, and the last one

retryVars == <<policy, pc, attempt, current_delay, last_exception,
               history, sleeps, events, outcome>>

safeVars == <<safe, safe_events>>

timedVars == <<timed, timed_events, now>>

topicVars == <<topic_arg, topic_pc, topic_ret, topic_calls>>

researchVars == <<research>>

excVars == <<heap, instances, caller_refs>>

handleVars == <<handled>>

loggingVars == <<root_logger, setup>>

\* the variables of the components modelled further down
utilVars == <<researchVars, excVars, handleVars, loggingVars>>

vars == <<retryVars, safeVars, timedVars, topicVars, utilVars>>

\* the error raised by the n-th invocation of func, of class kind
Error(kind, n) == [kind |-> kind, call |-> n]

\* the value returned by the n-th invocation of func
Result(n) == [value |-> "result", call |-> n]

Policies ==
    [max_retries : -1..MaxRetries,
     delay       : 0..MaxDelay,
     backoff     : 1..MaxBackoff,
     exceptions  : ExceptionTuples,
     log_retries : BOOLEAN]

RetryInit ==
    /\ policy \in Policies
    /\ pc = [e \in Execs |-> "idle"]
    /\ attempt = [e \in Execs |-> 0]
    /\ current_delay = [e \in Execs |-> 0]
    /\ last_exception = [e \in Execs |-> None]
    /\ history = [e \in Execs |-> <<>>]
    /\ sleeps = [e \in Execs |-> <<>>]
    /\ events = [e \in Execs |-> <<>>]
    /\ outcome = [e \in Execs |-> None]

\* the defaults of retry_on_error's parameters
DefaultPolicy ==
    [max_retries |-> 3, delay |-> 1, backoff |-> 2,
     exceptions |-> {"Exception"}, log_retries |-> TRUE]

\* no execution of a retry wrapper, under the default policy
RetryIdle ==
    /\ policy = DefaultPolicy
    /\ pc = [e \in Execs |-> "idle"]
    /\ attempt = [e \in Execs |-> 0]
    /\ current_delay = [e \in Execs |-> 0]
    /\ last_exception = [e \in Execs |-> None]
    /\ history = [e \in Execs |-> <<>>]
    /\ sleeps = [e \in Execs |-> <<>>]
    /\ events = [e \in Execs |-> <<>>]
    /\ outcome = [e \in Execs |-> None]

\* the __name__ of the functions passed to safe_execute and
\* log_execution_time
FuncNames == {"search_web", "save_memory"}

\* no call of safe_execute yet
SafeIdle ==
    /\ safe = [pc |-> "idle", calls |-> 0, func |-> "search_web",
               default_return |-> None, log_error |-> TRUE,
               result |-> None, outcome |-> None]
    /\ safe_events = <<>>

\* no call of a timed function yet
TimedIdle ==
    /\ timed = [pc |-> "idle", calls |-> 0, func |-> "search_web",
                start_time |-> 0, result |-> None, outcome |-> None]
    /\ timed_events = <<>>
    /\ now = 0

\* no call of _validate_topic
TopicIdle ==
    /\ topic_arg = <<>>
    /\ topic_pc = "idle"
    /\ topic_ret = None
    /\ topic_calls = 0

\* research has not been called
ResearchIdle ==
    research = [pc |-> "idle", input |-> <<>>, topic |-> <<>>,
                llm |-> FALSE, tool_calls |-> <<>>, results |-> <<>>,
                search_results |-> None, outcome |-> None]

\* no error has been constructed
ExcIdle ==
    /\ heap = <<>>
    /\ instances = <<>>
    /\ caller_refs = {}

\* the defaults of handle_errors' parameters
HandleDefaults ==
    [default_return |-> None, raise_exception |-> FALSE,
     log_traceback |-> TRUE, exception_type |-> None]

\* no call of a function wrapped by handle_errors
HandleIdle ==
    handled = [pc |-> "idle", cfg |-> HandleDefaults, func |-> None,
               events |-> <<>>, outcome |-> None]

\* the root logger as the logging module creates it, and no call of
\* setup_logging
LoggingIdle ==
    /\ root_logger = [level |-> 30, handlers |-> <<>>]
    /\ setup = [calls |-> 0, last_ok |-> 0, outcome |-> None,
                warnings |-> <<>>]

\* none of the components modelled further down is used
UtilIdle == ResearchIdle /\ ExcIdle /\ HandleIdle /\ LoggingIdle

(* ------------------------------------------------------- retry_on_error *)
\* the loop written range(max_retries): one iteration short
LoopBound_OffByOne(max_retries) == max_retries

\* range(max_retries + 1): the number of iterations of the loop
LoopBound(max_retries) == max_retries + 1

\* a bare `except Exception`: the triggering set is ignored
ExceptClause_CatchAll(kind, exceptions) == TRUE

\* except exceptions as e: whether an error of class kind is caught
ExceptClause(kind, exceptions) ==
    \E cls \in exceptions : IsInstance(kind, cls)

\* if attempt <= max_retries: a sleep follows the last attempt too
ShouldRetry_Inclusive(a, max_retries) == a <= max_retries

\* if attempt < max_retries
ShouldRetry(a, max_retries) == a < max_retries

\* current_delay += backoff: a linear schedule
NextDelay_Linear(d, backoff) == d + backoff

\* current_delay *= backoff
NextDelay(d, backoff) == d * backoff

\* current_delay = delay
InitialDelay(p) == p.delay

\* logger.warning("Attempt {attempt + 1}/{max_retries + 1} failed for
\* {func_name}: {e}. Retrying in {current_delay}s...")
RetryEvent(a, max_retries, err, d) ==
    [level |-> "WARNING", attempt |-> a + 1, total |-> max_retries + 1,
     error |-> err.kind, delay |-> d]

\* logger.error("All {max_retries + 1} attempts failed for {func_name}")
ExhaustedEvent(max_retries) ==
    [level |-> "ERROR", total |-> max_retries + 1]

\* the log_retries flag is ignored
Logged_Always(log, log_retries, ev) == Append(log, ev)

\* if log_retries: logger.<level>(...)
Logged(log, log_retries, ev) ==
    IF log_retries THEN Append(log, ev) ELSE log

\* the head of the for loop, and the code after the loop:
\* the next iteration, or `if last_exception: raise last_exception`,
\* or the implicit `return None`
LoopHead(e, a, last) ==
    IF a < LoopBound(policy.max_retries)
    THEN /\ pc' = [pc EXCEPT ![e] = "call"]
         /\ outcome' = outcome
    ELSE IF last # None
    THEN /\ pc' = [pc EXCEPT ![e] = "raised"]
         /\ outcome' = [outcome EXCEPT ![e] = last]
    ELSE /\ pc' = [pc EXCEPT ![e] = "returned"]
         /\ outcome' = [outcome EXCEPT ![e] = None]

\* a wait that stalls the whole process (a busy loop under the
\* interpreter lock, or a lock held across the sleep)
MayRun_GlobalSleep(e) == \A f \in Execs \ {e} : pc[f] # "sleeping"

\* time.sleep(current_delay) suspends the calling thread only and wrapper
\* takes no lock: whether the thread of execution e is allowed to run
MayRun(e) == TRUE

\* the loop written "sleep, then try": a sleep precedes the first attempt
WrapperEnter_SleepFirst(e) ==
    /\ MayRun(e)
    /\ UNCHANGED <<safeVars, timedVars, topicVars, utilVars>>
    /\ pc[e] = "idle"
    /\ current_delay' = [current_delay EXCEPT ![e] = policy.delay]
    /\ last_exception' = [last_exception EXCEPT ![e] = None]
    /\ attempt' = [attempt EXCEPT ![e] = 0]
    /\ sleeps' = [sleeps EXCEPT ![e] = Append(@, policy.delay)]
    /\ pc' = [pc EXCEPT ![e] = "sleeping"]
    /\ UNCHANGED <<policy, history, events, outcome>>

\* wrapper is called: the locals are initialised and the loop is entered
WrapperEnter(e) ==
    /\ MayRun(e)
    /\ UNCHANGED <<safeVars, timedVars, topicVars, utilVars>>
    /\ pc[e] = "idle"
    /\ current_delay' = [current_delay EXCEPT ![e] = InitialDelay(policy)]
    /\ last_exception' = [last_exception EXCEPT ![e] = None]
    /\ attempt' = [attempt EXCEPT ![e] = 0]
    /\ LoopHead(e, 0, None)
    /\ UNCHANGED <<policy, history, sleeps, events>>

\* func(*args, **kwargs) without the `return`: the loop goes on
AttemptSucceeds_NoReturn(e) ==
    /\ MayRun(e)
    /\ UNCHANGED <<safeVars, timedVars, topicVars, utilVars>>
    /\ pc[e] = "call"
    /\ history' = [history EXCEPT ![e] = Append(@, "ok")]
    /\ attempt' = [attempt EXCEPT ![e] = @ + 1]
    /\ IF attempt[e] + 1 < policy.max_retries + 1
       THEN pc' = [pc EXCEPT ![e] = "call"] /\ outcome' = outcome
       ELSE /\ pc' = [pc EXCEPT ![e] = "returned"]
            /\ outcome' = [outcome EXCEPT ![e] = None]
    /\ UNCHANGED <<policy, current_delay, last_exception, sleeps, events>>

\* return func(*args, **kwargs), func returning
AttemptSucceeds(e) ==
    /\ MayRun(e)
    /\ UNCHANGED <<safeVars, timedVars, topicVars, utilVars>>
    /\ pc[e] = "call"
    /\ history' = [history EXCEPT ![e] = Append(@, "ok")]
    /\ pc' = [pc EXCEPT ![e] = "returned"]
    /\ outcome' = [outcome EXCEPT ![e] = Result(Len(history[e]) + 1)]
    /\ UNCHANGED <<policy, attempt, current_delay, last_exception,
                   sleeps, events>>

\* func raises an error of class kind: the except clause, up to the
\* call of time.sleep or the raise
AttemptFails(e, kind) ==
    LET err == Error(kind, Len(history[e]) + 1) IN
    /\ MayRun(e)
    /\ UNCHANGED <<safeVars, timedVars, topicVars, utilVars>>
    /\ pc[e] = "call"
    /\ history' = [history EXCEPT ![e] = Append(@, kind)]
    /\ IF ExceptClause(kind, policy.exceptions)
       THEN /\ last_exception' = [last_exception EXCEPT ![e] = err]
            /\ IF ShouldRetry(attempt[e], policy.max_retries)
               THEN /\ events' = [events EXCEPT ![e] =
                         Logged(@, policy.log_retries,
                                RetryEvent(attempt[e], policy.max_retries,
                                           err, current_delay[e]))]
                    /\ sleeps' = [sleeps EXCEPT ![e] =
                                     Append(@, current_delay[e])]
                    /\ pc' = [pc EXCEPT ![e] = "sleeping"]
                    /\ outcome' = outcome
               ELSE /\ events' = [events EXCEPT ![e] =
                         Logged(@, policy.log_retries,
                                ExhaustedEvent(policy.max_retries))]
                    /\ sleeps' = sleeps
                    /\ pc' = [pc EXCEPT ![e] = "raised"]
                    /\ outcome' = [outcome EXCEPT ![e] = err]
       ELSE /\ pc' = [pc EXCEPT ![e] = "raised"]
            /\ outcome' = [outcome EXCEPT ![e] = err]
            /\ UNCHANGED <<last_exception, sleeps, events>>
    /\ UNCHANGED <<policy, attempt, current_delay>>

\* current_delay kept in the decorator's closure (nonlocal) instead of in
\* wrapper: one delay shared by all executions
SleepReturns_SharedDelay(e) ==
    /\ MayRun(e)
    /\ UNCHANGED <<safeVars, timedVars, topicVars, utilVars>>
    /\ pc[e] = "sleeping"
    /\ current_delay' = [f \in Execs |->
                            NextDelay(current_delay[e], policy.backoff)]
    /\ attempt' = [attempt EXCEPT ![e] = @ + 1]
    /\ LoopHead(e, attempt[e] + 1, last_exception[e])
    /\ UNCHANGED <<policy, last_exception, history, sleeps, events>>

\* time.sleep returns: current_delay *= backoff, and the next iteration
SleepReturns(e) ==
    /\ MayRun(e)
    /\ UNCHANGED <<safeVars, timedVars, topicVars, utilVars>>
    /\ pc[e] = "sleeping"
    /\ current_delay' = [current_delay EXCEPT ![e] =
                            NextDelay(@, policy.backoff)]
    /\ attempt' = [attempt EXCEPT ![e] = @ + 1]
    /\ LoopHead(e, attempt[e] + 1, last_exception[e])
    /\ UNCHANGED <<policy, last_exception, history, sleeps, events>>

\* one step of the execution e
ExecStep(e) ==
    \/ WrapperEnter(e)
    \/ AttemptSucceeds(e)
    \/ \E kind \in RaisedKinds : AttemptFails(e, kind)
    \/ SleepReturns(e)

(* ------------------------------------------------------ _validate_topic *)
\* A str is the sequence of its characters, each a one-character string.

MIN_TOPIC_LENGTH == 3
MAX_TOPIC_LENGTH == 500

UpperCase == 
    <<"A", "B", "C", "D", "E", "F", "G", "H", "I", "J", "K", "L", "M",
      "N", "O", "P", "Q", "R", "S", "T", "U", "V", "W", "X", "Y", "Z">>
LowerCase == 
    <<"a", "b", "c", "d", "e", "f", "g", "h", "i", "j", "k", "l", "m",
      "n", "o", "p", "q", "r", "s", "t", "u", "v", "w", "x", "y", "z">>
Digits == {"0", "1", "2", "3", "4", "5", "6", "7", "8", "9"}

\* str.lower() of one character
Lower(c) ==
    IF \E i \in 1..26 : UpperCase[i] = c
    THEN LowerCase[CHOOSE i \in 1..26 : UpperCase[i] = c]
    ELSE c

\* the whitespace of str.strip(), str.split() and the regex \s
IsSpace(c) == c \in {" ", "\t", "\n"}

\* the regex \w
IsWord(c) ==
    \/ \E i \in 1..26 : c = UpperCase[i] \/ c = LowerCase[i]
    \/ c \in Digits
    \/ c = "_"

\* str.lstrip()
RECURSIVE LStrip(_)
LStrip(s) ==
    IF s = <<>> \/ ~IsSpace(Head(s)) THEN s ELSE LStrip(Tail(s))

\* str.rstrip()
RECURSIVE RStrip(_)
RStrip(s) ==
    IF s = <<>> \/ ~IsSpace(s[Len(s)])
    THEN s ELSE RStrip(SubSeq(s, 1, Len(s) - 1))

\* topic.strip()
Strip(s) == RStrip(LStrip(s))

\* the position of the first whitespace of s, Len(s) + 1 when it has none
FirstSpace(s) ==
    LET sp == {i \in 1..Len(s) : IsSpace(s[i])} IN
    IF sp = {} THEN Len(s) + 1
    ELSE CHOOSE i \in sp : \A j \in sp : i <= j

\* topic.split(): the whitespace before a word is skipped, the word runs
\* to the next whitespace
RECURSIVE Split(_)
Split(s) ==
    LET t == LStrip(s) IN
    IF t = <<>> THEN <<>>
    ELSE <<SubSeq(t, 1, FirstSpace(t) - 1)>>
             \o Split(SubSeq(t, FirstSpace(t), Len(t)))

\* sep.join(words)
RECURSIVE Join(_, _)
Join(sep, words) ==
    IF words = <<>> THEN <<>>
    ELSE IF Len(words) = 1 THEN words[1]
    ELSE words[1] \o sep \o Join(sep, Tail(words))

\* re.IGNORECASE left out
CharEq_CaseSensitive(c, d) == c = d

\* re.IGNORECASE: whether the character c matches the pattern character d
CharEq(c, d) == Lower(c) = Lower(d)

\* whether the literal lit matches s at position i
LitAt(s, i, lit) ==
    /\ i + Len(lit) - 1 <= Len(s)
    /\ \A k \in 1..Len(lit) : CharEq(s[i + k - 1], lit[k])

\* re.search(r'<script[^>]*>', s, re.IGNORECASE)
SearchScriptTag(s) ==
    \E i \in 1..Len(s) :
        /\ LitAt(s, i, <<"<", "s", "c", "r", "i", "p", "t">>)
        /\ \E j \in (i + 7)..Len(s) :
              /\ s[j] = ">"
              /\ \A k \in (i + 7)..(j - 1) : s[k] # ">"

\* re.search(r'javascript:', s, re.IGNORECASE)
SearchJavascript(s) ==
    \E i \in 1..Len(s) : LitAt(s, i, <<"j", "a", "v", "a", "s", "c", "r", "i", "p", "t", ":">>)

\* re.search(r'on\w+\s*=', s, re.IGNORECASE)
SearchEventHandler(s) ==
    \E i \in 1..Len(s) :
        /\ LitAt(s, i, <<"o", "n">>)
        /\ \E j \in (i + 2)..Len(s) :
              /\ \A k \in (i + 2)..j : IsWord(s[k])
              /\ \E l \in (j + 1)..Len(s) :
                    /\ s[l] = "="
                    /\ \A k \in (j + 1)..(l - 1) : IsSpace(s[k])

\* re.search(r'(--|;)\s*<keyword>', s, re.IGNORECASE)
SearchSql(s, keyword) ==
    \E i \in 1..Len(s) :
        \E start \in {i + 1, i + 2} :
            /\ \/ start = i + 1 /\ s[i] = ";"
               \/ start = i + 2 /\ LitAt(s, i, <<"-", "-">>)
            /\ \E l \in start..Len(s) :
                  /\ LitAt(s, l, keyword)
                  /\ \A k \in start..(l - 1) : IsSpace(s[k])

\* the keywords of the four SQL entries of SUSPICIOUS_PATTERNS
SqlKeywords ==
    <<<<"D", "R", "O", "P">>,
      <<"D", "E", "L", "E", "T", "E">>,
      <<"I", "N", "S", "E", "R", "T">>,
      <<"U", "P", "D", "A", "T", "E">>>>

\* INVALID_CHARS_PATTERN with the braces forgotten: r'[<>]'
HasInvalidChars_AnglesOnly(s) ==
    \E i \in 1..Len(s) : s[i] \in {"<", ">"}

\* re.search(INVALID_CHARS_PATTERN, topic), the pattern being r'[<>{}]'
HasInvalidChars(s) ==
    \E i \in 1..Len(s) : s[i] \in {"<", ">", "{", "}"}

\* for pattern in SUSPICIOUS_PATTERNS: if re.search(pattern, topic, re.I)
IsSuspicious(s) ==
    \/ SearchScriptTag(s)
    \/ SearchJavascript(s)
    \/ SearchEventHandler(s)
    \/ \E n \in 1..Len(SqlKeywords) : SearchSql(s, SqlKeywords[n])

\* len(topic) < MIN_TOPIC_LENGTH - 1
TooShort_OffByOne(t) == Len(t) < MIN_TOPIC_LENGTH - 1

\* len(topic) < MIN_TOPIC_LENGTH
TooShort(t) == Len(t) < MIN_TOPIC_LENGTH

\* len(topic) >= MAX_TOPIC_LENGTH: an exclusive upper bound
TooLong_Exclusive(t) == Len(t) >= MAX_TOPIC_LENGTH

\* len(topic) > MAX_TOPIC_LENGTH + 1
TooLong_OffByOne(t) == Len(t) > MAX_TOPIC_LENGTH + 1

\* len(topic) > MAX_TOPIC_LENGTH
TooLong(t) == Len(t) > MAX_TOPIC_LENGTH

\* step 5 left out
Normalize_Identity(t) == t

\* topic.replace("  ", " "): each pair of spaces replaced by one space,
\* once, left to right, so the second space of every pair goes
Normalize_ReplacePairs(t) ==
    LET before(i) == CHOOSE j \in 0..(i - 1) :
                        /\ j = 0 \/ t[j] # " "
                        /\ \A k \in (j + 1)..(i - 1) : t[k] = " "
        kept(i) == t[i] # " " \/ (i - before(i)) % 2 = 1
        idx == SelectSeq([i \in 1..Len(t) |-> i], kept)
    IN  [k \in 1..Len(idx) |-> t[idx[k]]]

\* ' '.join(topic.split())
Normalize(t) == Join(<<" ">>, Split(t))

\* raise ResearchError(message); the messages are named by what they say
Raise(message) ==
    [ok |-> FALSE, class |-> "ResearchError", message |-> message]

\* return topic
Return(t) == [ok |-> TRUE, value |-> t]

\* the suspicious patterns searched before the forbidden characters
ValidateTopic_SuspiciousFirst(topic) ==
    IF topic = <<>> \/ Strip(topic) = <<>> THEN Raise("EMPTY")
    ELSE LET t == Strip(topic) IN
         IF TooShort(t) THEN Raise("TOO_SHORT")
         ELSE IF TooLong(t) THEN Raise("TOO_LONG")
         ELSE IF IsSuspicious(t) THEN Raise("SUSPICIOUS_CONTENT")
         ELSE IF HasInvalidChars(t) THEN Raise("FORBIDDEN_CHARS")
         ELSE Return(Normalize(t))

\* _validate_topic(topic): what it returns or raises
ValidateTopic(topic) ==
    IF topic = <<>> \/ Strip(topic) = <<>> THEN Raise("EMPTY")
    ELSE LET t == Strip(topic) IN
         IF TooShort(t) THEN Raise("TOO_SHORT")
         ELSE IF TooLong(t) THEN Raise("TOO_LONG")
         ELSE IF HasInvalidChars(t) THEN Raise("FORBIDDEN_CHARS")
         ELSE IF IsSuspicious(t) THEN Raise("SUSPICIOUS_CONTENT")
         ELSE Return(Normalize(t))

\* the pieces short topics are made of
Pieces ==
    {<<" ">>, <<"\t">>, <<"a">>, <<"!">>, <<"=">>, <<";">>, <<"-">>,
     <<">">>, <<"{">>, <<"}">>,
     <<"<", "s", "c", "r", "i", "p", "t">>,
     <<"O", "n">>,
     <<"D", "R", "O", "P">>,
     <<"d", "e", "l", "e", "t", "e">>,
     <<"J", "a", "v", "a", "S", "c", "r", "i", "p", "t", ":">>}

\* the concatenations of at most n pieces
RECURSIVE Concats(_)
Concats(n) ==
    IF n = 0 THEN {<<>>}
    ELSE LET shorter == Concats(n - 1) IN
         shorter \cup {p \o t : p \in Pieces, t \in shorter}

\* the topics of the specification's examples, keywords after a
\* separator and whitespace, and a run of mixed whitespace
ExampleTopics ==
    {<<"D", "R", "O", "P", " ", "T", "A", "B", "L", "E", " ", "u", "s", "e", "r", "s", ";", " ", "-", "-", " ", "A", "I">>,
     <<"<", "s", "c", "r", "i", "p", "t", ">", "a", "l", "e", "r", "t", "(", "1", ")", "<", "/", "s", "c", "r", "i", "p", "t", ">", " ", "A", "I">>,
     <<"A", "I", "!">>,
     <<" ", " ", "A", "I", " ", " ", " ", "i", "n", " ", " ", " ", "e", "d", "u", "c", "a", "t", "i", "o", "n", " ", " ">>,
     <<"m", "o", "n", "e", "y", "\t", " ", "=", "1">>,
     <<"x", ";", " ", "\t", "I", "n", "s", "e", "r", "t">>,
     <<"-", "-", " ", " ", "u", "p", "d", "a", "t", "e">>,
     <<"a", " ", ";", "D", "R", "O", "P", "\t", "\t", "{">>,
     <<"a", " ", "\t", "\n", " ", "b">>}

\* n times the character c
Fill(c, n) == [i \in 1..n |-> c]

\* what a long topic begins and ends with
Affixes ==
    {<<>>, <<" ">>, <<"\t", " ">>, <<"!">>, <<"}">>,
     <<"!", " ", " ", "!">>,
     <<";", " ", "D", "R", "O", "P", " ">>}

\* topics whose length is about MAX_TOPIC_LENGTH
LongTopics ==
    {pre \o Fill("a", n) \o post :
        pre \in Affixes, post \in Affixes,
        n \in (MAX_TOPIC_LENGTH - 2)..(MAX_TOPIC_LENGTH + 1)}

\* the arguments _validate_topic is called with
TopicInputs == Concats(MaxPieces) \cup ExampleTopics \cup LongTopics

\* _validate_topic is about to be called with one of the inputs
TopicInit ==
    /\ topic_arg \in TopicInputs
    /\ topic_pc = "ready"
    /\ topic_ret = None
    /\ topic_calls = 0
    /\ RetryIdle /\ SafeIdle /\ TimedIdle /\ UtilIdle

\* topic = _validate_topic(topic): the call, returning or raising
CallValidate ==
    /\ topic_pc = "ready"
    /\ topic_ret' = ValidateTopic(topic_arg)
    /\ topic_pc' = IF topic_ret'.ok THEN "returned" ELSE "raised"
    /\ topic_calls' = topic_calls + 1
    /\ UNCHANGED <<topic_arg, retryVars, safeVars, timedVars, utilVars>>

\* the caller passes the topic it was returned to _validate_topic again
Resubmit ==
    /\ topic_pc = "returned"
    /\ topic_calls < 2
    /\ topic_arg' = topic_ret.value
    /\ topic_pc' = "ready"
    /\ UNCHANGED <<topic_ret, topic_calls, retryVars, safeVars, timedVars,
                   utilVars>>

TopicNext == CallValidate \/ Resubmit

SpecTopic == TopicInit /\ [][TopicNext]_vars

(* --------------------------------------------------------- safe_execute *)
\* the values of default_return the model draws from
SafeDefaults == {None, [value |-> "default"]}

\* safe_execute(func, default_return=..., log_error=...) is called
SafeCall(f, d, l) ==
    /\ safe.pc \in {"idle", "returned", "raised"}
    /\ safe.calls < MaxCalls
    /\ safe' = [pc |-> "call", calls |-> safe.calls + 1, func |-> f,
                default_return |-> d, log_error |-> l,
                result |-> None, outcome |-> None]
    /\ UNCHANGED <<safe_events, retryVars, timedVars, topicVars, utilVars>>

\* return func(*args, **kwargs), func returning
SafeFuncReturns ==
    /\ safe.pc = "call"
    /\ safe' = [safe EXCEPT !.pc = "returned",
                            !.result = Result(safe.calls),
                            !.outcome = Result(safe.calls)]
    /\ UNCHANGED <<safe_events, retryVars, timedVars, topicVars, utilVars>>

\* an `except AIAgentsError`: the errors of other libraries escape
SafeCatches_ProjectOnly(kind) == IsInstance(kind, "AIAgentsError")

\* except Exception as e
SafeCatches(kind) == IsInstance(kind, "Exception")

\* logger.error("Error executing {func_name}: {e}")
SafeErrorEvent(call, f, err) ==
    [level |-> "ERROR", call |-> call, func |-> f, error |-> err]

\* func raises an error of class kind: the except clause
SafeFuncRaises(kind) ==
    LET err == Error(kind, safe.calls) IN
    /\ safe.pc = "call"
    /\ IF SafeCatches(kind)
       THEN /\ safe_events' =
                   IF safe.log_error
                   THEN Append(safe_events,
                               SafeErrorEvent(safe.calls, safe.func, err))
                   ELSE safe_events
            /\ safe' = [safe EXCEPT !.pc = "returned",
                                    !.result = err,
                                    !.outcome = safe.default_return]
       ELSE /\ safe_events' = safe_events
            /\ safe' = [safe EXCEPT !.pc = "raised",
                                    !.result = err,
                                    !.outcome = err]
    /\ UNCHANGED <<retryVars, timedVars, topicVars, utilVars>>

SafeNext ==
    \/ \E f \in FuncNames, d \in SafeDefaults, l \in BOOLEAN : SafeCall(f, d, l)
    \/ SafeFuncReturns
    \/ \E kind \in RaisedKinds : SafeFuncRaises(kind)

SafeInit == RetryIdle /\ SafeIdle /\ TimedIdle /\ TopicIdle /\ UtilIdle

SpecSafe == SafeInit /\ [][SafeNext]_vars

(* --------------------------------------------------- log_execution_time *)
\* a call of the wrapper: start_time = time.time()
TimedEnter(f) ==
    /\ timed.pc \in {"idle", "returned", "raised"}
    /\ timed.calls < MaxCalls
    /\ timed' = [pc |-> "call", calls |-> timed.calls + 1, func |-> f,
                 start_time |-> now, result |-> None, outcome |-> None]
    /\ UNCHANGED <<timed_events, now, retryVars, safeVars, topicVars, utilVars>>

\* result = func(*args, **kwargs), func returning after d units of time
TimedFuncReturns(d) ==
    /\ timed.pc = "call"
    /\ now' = now + d
    /\ timed' = [timed EXCEPT !.pc = "finished",
                              !.result = Result(timed.calls)]
    /\ UNCHANGED <<timed_events, retryVars, safeVars, topicVars, utilVars>>

\* func raising an error of class kind after d units of time
TimedFuncRaises(kind, d) ==
    /\ timed.pc = "call"
    /\ now' = now + d
    /\ timed' = [timed EXCEPT !.pc = "finished",
                              !.result = Error(kind, timed.calls)]
    /\ UNCHANGED <<timed_events, retryVars, safeVars, topicVars, utilVars>>

\* whether func's outcome r is an error
IsError(r) == "kind" \in DOMAIN r

\* execution_time = time.time() - start_time, and
\* logger.debug("{func_name} executed in {execution_time:.2f}s") or
\* logger.error("{func_name} failed after {execution_time:.2f}s: {e}")
TimedEvent(call, f, r, execution_time) ==
    IF IsError(r)
    THEN [level |-> "ERROR", call |-> call, func |-> f,
          duration |-> execution_time, error |-> r]
    ELSE [level |-> "DEBUG", call |-> call, func |-> f,
          duration |-> execution_time]

\* the duration is logged, in the try block or in the except clause
TimedLog ==
    /\ timed.pc = "finished"
    /\ timed_events' =
           Append(timed_events,
                  TimedEvent(timed.calls, timed.func, timed.result,
                             now - timed.start_time))
    /\ timed' = [timed EXCEPT !.pc = "logged"]
    /\ UNCHANGED <<now, retryVars, safeVars, topicVars, utilVars>>

\* the except clause without its `raise`: the error is swallowed
TimedDeliver_NoRaise ==
    /\ timed.pc = "logged"
    /\ timed' = [timed EXCEPT
                    !.pc = "returned",
                    !.outcome = IF IsError(timed.result)
                                THEN None ELSE timed.result]
    /\ UNCHANGED <<timed_events, now, retryVars, safeVars, topicVars, utilVars>>

\* return result, or raise
TimedDeliver ==
    /\ timed.pc = "logged"
    /\ timed' = [timed EXCEPT
                    !.pc = IF IsError(timed.result)
                           THEN "raised" ELSE "returned",
                    !.outcome = timed.result]
    /\ UNCHANGED <<timed_events, now, retryVars, safeVars, topicVars, utilVars>>

TimedNext ==
    \/ \E f \in FuncNames : TimedEnter(f)
    \/ \E d \in 0..MaxDuration : TimedFuncReturns(d)
    \/ \E kind \in RaisedKinds, d \in 0..MaxDuration : TimedFuncRaises(kind, d)
    \/ TimedLog
    \/ TimedDeliver

TimedInit == RetryIdle /\ SafeIdle /\ TimedIdle /\ TopicIdle /\ UtilIdle

SpecTimed == TimedInit /\ [][TimedNext]_vars

(* ------------------------------------------- LangChain1Agent.research *)
\* @retry_on_error(max_retries=2, delay=1.0) on search_web: the other
\* parameters keep their defaults
SearchWebPolicy ==
    [max_retries |-> 2, delay |-> 1, backoff |-> 2,
     exceptions |-> {"Exception"}, log_retries |-> TRUE]

\* the attributes of a LangChain1Agent that are callable or properties:
\* the methods of the class and of LoggerMixin
AgentMethods ==
    {"__init__", "_create_tools", "_create_chains", "research",
     "_demo_analysis", "_create_report", "logger"}

\* self.<name> resolves, instead of raising AttributeError
HasMethod(name) == name \in AgentMethods

\* the topics research is called with
ResearchTopics == ExampleTopics \cup {<<>>}

\* research(topic) is called on an agent with or without an LLM; the
\* wrapper of search_web has not run
ResearchInit ==
    /\ \E t \in ResearchTopics, l \in BOOLEAN :
          research = [pc |-> "start", input |-> t, topic |-> t, llm |-> l,
                      tool_calls |-> <<>>, results |-> <<>>,
                      search_results |-> None, outcome |-> None]
    /\ policy = SearchWebPolicy
    /\ pc = [e \in Execs |-> "idle"]
    /\ attempt = [e \in Execs |-> 0]
    /\ current_delay = [e \in Execs |-> 0]
    /\ last_exception = [e \in Execs |-> None]
    /\ history = [e \in Execs |-> <<>>]
    /\ sleeps = [e \in Execs |-> <<>>]
    /\ events = [e \in Execs |-> <<>>]
    /\ outcome = [e \in Execs |-> None]
    /\ SafeIdle /\ TimedIdle /\ TopicIdle
    /\ ExcIdle /\ HandleIdle /\ LoggingIdle

\* what research leaves alone
ResearchFrame == UNCHANGED <<retryVars, safeVars, timedVars, topicVars,
                             excVars, handleVars, loggingVars>>

\* the call of a tool or chain with an argument, appended to the trace
ToolCall(r, tool, arg) == Append(r.tool_calls, [tool |-> tool, arg |-> arg])

\* results[key] = value
SetResult(results, key, value) == Append(results, <<key, value>>)

\* raise ResearchError(...) from e, in the
\* handler of the outer try
Abort(cause) ==
    [ok |-> FALSE, class |-> "ResearchError", message |-> "RESEARCH_FAILED",
     cause |-> cause]

\* the search is given the caller's string, not the validated one
SearchArg_RawInput(r) == r.input

\* self.tools["search_web"](topic): topic is the local rebound by
\* topic = _validate_topic(topic)
SearchArg(r) == r.topic

\* topic = _validate_topic(topic), outside the try: a rejection leaves
\* research at once; results = {"topic": topic, "timestamp": ...}
ResearchValidate ==
    /\ research.pc = "start"
    /\ LET ret == ValidateTopic(research.input) IN
       IF ret.ok
       THEN research' = [research EXCEPT
                !.topic = ret.value,
                !.results = <<<<"topic", "topic">>,
                              <<"timestamp", "now">>>>,
                !.pc = "search"]
       ELSE research' = [research EXCEPT !.pc = "raised", !.outcome = ret]
    /\ ResearchFrame

\* step 1: self.tools["search_web"](topic) is called
SearchCall ==
    /\ research.pc = "search"
    /\ research' = [research EXCEPT
          !.tool_calls = ToolCall(research, "search_web",
                                  SearchArg(research)),
          !.pc = "searching"]
    /\ ResearchFrame

\* the wrapper of search_web runs: the body of search_web returns results
\* (found, or the demo text) or raises ToolError for any Exception
SearchStep ==
    /\ research.pc = "searching"
    /\ \/ WrapperEnter("e1")
       \/ AttemptSucceeds("e1")
       \/ AttemptFails("e1", "ToolError")
       \/ SleepReturns("e1")

\* search_results = ...; results["search"] = search_results
SearchReturns ==
    /\ research.pc = "searching"
    /\ pc["e1"] = "returned"
    /\ research' = [research EXCEPT
          !.search_results = [source |-> "search_web"],
          !.results = SetResult(@, "search", "search_web"),
          !.pc = "analyze"]
    /\ ResearchFrame

\* the wrapper raised: except (ToolError, ImportError, ConnectionError)
\* calls self._get_demo_search_results(topic); except Exception raises
\* ResearchError; both inside the outer try, whose handler raises
\* ResearchError from whatever reaches it
SearchRaises ==
    /\ research.pc = "searching"
    /\ pc["e1"] = "raised"
    /\ LET kind == outcome["e1"].kind IN
       IF \E cls \in {"ToolError", "ImportError", "ConnectionError"} :
             IsInstance(kind, cls)
       THEN IF HasMethod("_get_demo_search_results")
            THEN research' = [research EXCEPT
                    !.search_results = [source |-> "demo"],
                    !.results = SetResult(@, "search", "demo"),
                    !.pc = "analyze"]
            ELSE research' = [research EXCEPT
                    !.pc = "raised",
                    !.outcome = Abort("AttributeError")]
       ELSE research' = [research EXCEPT
               !.pc = "raised",
               !.outcome = Abort("ResearchError")]
    /\ ResearchFrame

\* step 2: analyze_data(search_results), or the default text when it
\* raises
Analyze(ok) ==
    /\ research.pc = "analyze"
    /\ research' = [research EXCEPT
          !.tool_calls = ToolCall(research, "analyze_data",
                                  <<"search_results">>),
          !.results = SetResult(@, "analysis",
                                IF ok THEN "computed" ELSE "unavailable"),
          !.pc = "ai"]
    /\ ResearchFrame

\* step 3: the research chain when there is an LLM, the demo analysis
\* when there is none or the chain raises
AIAnalysis(ok) ==
    /\ research.pc = "ai"
    /\ IF research.llm
       THEN research' = [research EXCEPT
               !.tool_calls = ToolCall(research, "chains.research",
                                       research.topic),
               !.results =
                   IF ok THEN SetResult(@, "ai_analysis", "llm")
                   ELSE SetResult(SetResult(@, "ai_analysis", "demo"),
                                  "ai_analysis_error", "error"),
               !.pc = "language"]
       ELSE research' = [research EXCEPT
               !.results = SetResult(@, "ai_analysis", "demo"),
               !.pc = "language"]
    /\ ResearchFrame

\* what detect_language returns: a language code after a colon, or a
\* message without one
LanguageInfos == {"en", "uk", "no text"}

\* step 4: detect_language(results["ai_analysis"]); step 5 translates
\* unless the code found is "en"
DetectLanguage(info) ==
    /\ research.pc = "language"
    /\ research' = [research EXCEPT
          !.tool_calls = ToolCall(research, "detect_language",
                                  <<"ai_analysis">>),
          !.results = SetResult(@, "language_info", info),
          !.pc = IF info # "en" THEN "translate" ELSE "save"]
    /\ ResearchFrame

\* step 5: translate_text(results["ai_analysis"], "en")
Translate ==
    /\ research.pc = "translate"
    /\ research' = [research EXCEPT
          !.tool_calls = ToolCall(research, "translate_text",
                                  <<"ai_analysis">>),
          !.results = SetResult(@, "translated_ai_analysis", "text"),
          !.pc = "save"]
    /\ ResearchFrame

\* step 6: save_to_memory(results); a failure is logged
SaveToMemory ==
    /\ research.pc = "save"
    /\ research' = [research EXCEPT
          !.tool_calls = ToolCall(research, "save_to_memory",
                                  <<"results">>),
          !.pc = "wordcloud"]
    /\ ResearchFrame

\* step 7: plot_wordcloud(results["ai_analysis"]), which returns a path
\* or a message
PlotWordcloud ==
    /\ research.pc = "wordcloud"
    /\ research' = [research EXCEPT
          !.tool_calls = ToolCall(research, "plot_wordcloud",
                                  <<"ai_analysis">>),
          !.results = SetResult(@, "wordcloud", "text"),
          !.pc = "report"]
    /\ ResearchFrame

\* step 8 and the report: the files are written (failures are logged),
\* results["report"] is set and results is returned
ReturnResults ==
    /\ research.pc = "report"
    /\ research' = [research EXCEPT
          !.results = SetResult(@, "report", "text"),
          !.pc = "returned",
          !.outcome = [ok |-> TRUE,
                       value |-> SetResult(research.results,
                                           "report", "text")]]
    /\ ResearchFrame

ResearchNext ==
    \/ ResearchValidate
    \/ SearchCall
    \/ SearchStep
    \/ SearchReturns
    \/ SearchRaises
    \/ \E ok \in BOOLEAN : Analyze(ok)
    \/ \E ok \in BOOLEAN : AIAnalysis(ok)
    \/ \E info \in LanguageInfos : DetectLanguage(info)
    \/ Translate
    \/ SaveToMemory
    \/ PlotWordcloud
    \/ ReturnResults

SpecResearch == ResearchInit /\ [][ResearchNext]_vars

(* --------------------------------------------- AIAgentsError.__init__ *)
\* An object is referred to by its index in heap.  A dict is
\* [type |-> "dict", items |-> a function from its keys to values], a list
\* is [type |-> "list", items |-> a sequence]; a value is an immutable
\* atom or a reference to a list.

\* the classes errors are constructed from: the base class and two of
\* its subclasses, none of which defines __init__
ErrorClasses == {"AIAgentsError", "ToolError", "ValidationError"}

\* the messages errors are constructed with
Messages == {"message"}

\* the keys of the detail mappings
Keys == {"k1", "k2"}

\* the immutable detail values
Atoms == {[atom |-> "a"]}

\* the function f without the key k
Without(f, k) == [x \in DOMAIN f \ {k} |-> f[x]]

\* the function f with f[k] = v
With(f, k, v) == [x \in DOMAIN f \cup {k} |-> IF x = k THEN v ELSE f[x]]

\* {}
EmptyDict == [type |-> "dict", items |-> [x \in {} |-> x]]

\* self.details = details if details is not None else {}: no copy
InitDetails_Alias(h, details) ==
    IF details # None
    THEN [heap |-> h, ref |-> details.ref]
    ELSE [heap |-> Append(h, EmptyDict), ref |-> Len(h) + 1]

\* self.details = dict(details) if details is not None else {}: a new
\* dict with the keys of details bound to the same values, or a new
\* empty dict
InitDetails(h, details) ==
    IF details # None
    THEN [heap |-> Append(h, [type |-> "dict",
                              items |-> h[details.ref].items]),
          ref |-> Len(h) + 1]
    ELSE [heap |-> Append(h, EmptyDict), ref |-> Len(h) + 1]

\* what the research and tool layers are left alone by
ExcFrame == UNCHANGED <<retryVars, safeVars, timedVars, topicVars,
                        researchVars, handleVars, loggingVars>>

\* the calling code creates a mapping: d = {}
CallerNewDict ==
    /\ Len(heap) < MaxObjects
    /\ heap' = Append(heap, EmptyDict)
    /\ caller_refs' = caller_refs \cup {Len(heap) + 1}
    /\ UNCHANGED instances
    /\ ExcFrame

\* the calling code binds a key of its mapping: d[k] = v
CallerSetsKey(r, k, v) ==
    /\ r \in caller_refs
    /\ heap' = [heap EXCEPT ![r].items = With(@, k, v)]
    /\ UNCHANGED <<instances, caller_refs>>
    /\ ExcFrame

\* the calling code binds a key of its mapping to a new list: d[k] = []
CallerSetsKeyToList(r, k) ==
    /\ r \in caller_refs
    /\ Len(heap) < MaxObjects
    /\ heap' = Append([heap EXCEPT ![r].items =
                          With(@, k, [ref |-> Len(heap) + 1])],
                      [type |-> "list", items |-> <<>>])
    /\ UNCHANGED <<instances, caller_refs>>
    /\ ExcFrame

\* the calling code removes a key of its mapping: del d[k]
CallerDeletesKey(r, k) ==
    /\ r \in caller_refs
    /\ k \in DOMAIN heap[r].items
    /\ heap' = [heap EXCEPT ![r].items = Without(@, k)]
    /\ UNCHANGED <<instances, caller_refs>>
    /\ ExcFrame

\* the calling code appends to a list held in its mapping:
\* d[k].append(v)
CallerAppends(r, k, v) ==
    /\ r \in caller_refs
    /\ k \in DOMAIN heap[r].items
    /\ "ref" \in DOMAIN heap[r].items[k]
    /\ LET l == heap[r].items[k].ref IN
       /\ Len(heap[l].items) < MaxListLen
       /\ heap' = [heap EXCEPT ![l].items = Append(@, v)]
    /\ UNCHANGED <<instances, caller_refs>>
    /\ ExcFrame

\* cls(message, details) or cls(message): every class of the taxonomy
\* inherits AIAgentsError.__init__
Construct(cls, message, details) ==
    /\ Len(instances) < MaxInstances
    /\ Len(heap) < MaxObjects
    /\ LET d == InitDetails(heap, details) IN
       /\ heap' = d.heap
       /\ instances' = Append(instances,
                              [class |-> cls, message |-> message,
                               details |-> d.ref, given |-> details])
    /\ UNCHANGED caller_refs
    /\ ExcFrame

\* code holding the error binds a key of its details:
\* e.details[k] = v
HolderSetsKey(i, k, v) ==
    /\ i \in 1..Len(instances)
    /\ heap' = [heap EXCEPT ![instances[i].details].items = With(@, k, v)]
    /\ UNCHANGED <<instances, caller_refs>>
    /\ ExcFrame

\* the values of the details argument: None or one of the caller's dicts
DetailsArgs == {None} \cup {[ref |-> r] : r \in caller_refs}

ExcNext ==
    \/ CallerNewDict
    \/ \E r \in caller_refs, k \in Keys, v \in Atoms : CallerSetsKey(r, k, v)
    \/ \E r \in caller_refs, k \in Keys : CallerSetsKeyToList(r, k)
    \/ \E r \in caller_refs, k \in Keys : CallerDeletesKey(r, k)
    \/ \E r \in caller_refs, k \in Keys, v \in Atoms : CallerAppends(r, k, v)
    \/ \E cls \in ErrorClasses, m \in Messages, d \in DetailsArgs :
          Construct(cls, m, d)
    \/ \E i \in 1..Len(instances), k \in Keys, v \in Atoms :
          HolderSetsKey(i, k, v)

ExcInit ==
    RetryIdle /\ SafeIdle /\ TimedIdle /\ TopicIdle /\ UtilIdle

SpecExc == ExcInit /\ [][ExcNext]_vars

(* -------------------------------------------------------- handle_errors *)
\* the arguments of handle_errors the model draws from
HandleConfigs ==
    [default_return : {None, [value |-> "default"]},
     raise_exception : BOOLEAN,
     log_traceback : BOOLEAN,
     exception_type : {None, [class |-> "ResearchError"],
                       [class |-> "RuntimeError"]}]

\* the classes of the errors the wrapped function raises
HandleRaisedKinds == {"AIAgentsError", "ToolError", "ValueError", "KeyError"}

\* the wrapper returns a value
Returned(v) == [ok |-> TRUE, value |-> v]

\* the wrapper raises err; cause is the error it is chained to by `from`
Raised(err, cause) == [ok |-> FALSE, error |-> err, cause |-> cause]

\* the events of the branch `except AIAgentsError as e`
ProjectErrorEvents(cfg, err) ==
    <<[level |-> "ERROR", text |-> "Error in", error |-> err.kind]>>
    \o (IF err.details THEN <<[level |-> "DEBUG", text |-> "Error details",
                               error |-> err.kind]>> ELSE <<>>)
    \o (IF cfg.log_traceback THEN <<[level |-> "DEBUG", text |-> "Traceback",
                                     error |-> err.kind]>> ELSE <<>>)

\* the branch `except AIAgentsError as e`: raise, or return default_return
HandleProjectError(cfg, err) ==
    IF cfg.raise_exception THEN Raised(err, None)
    ELSE Returned(cfg.default_return)

\* the events of the branch `except Exception as e`
OtherErrorEvents(cfg, err) ==
    <<[level |-> "ERROR", text |-> "Unexpected error in",
       error |-> err.kind]>>
    \o (IF cfg.log_traceback THEN <<[level |-> "DEBUG", text |-> "Traceback",
                                     error |-> err.kind]>> ELSE <<>>)

\* exception_type(error_msg)
Converted(cls, err) ==
    [kind |-> cls, message |-> "Unexpected error in", details |-> FALSE]

\* exception_type is used only when raise_exception is set
HandleOtherError_TypeNeedsRaise(cfg, err) ==
    IF cfg.exception_type # None /\ cfg.raise_exception
    THEN Raised(Converted(cfg.exception_type.class, err), err)
    ELSE IF cfg.raise_exception THEN Raised(err, None)
    ELSE Returned(cfg.default_return)

\* the branch `except Exception as e`: raise exception_type(error_msg)
\* from e, or raise, or return default_return
HandleOtherError(cfg, err) ==
    IF cfg.exception_type # None
    THEN Raised(Converted(cfg.exception_type.class, err), err)
    ELSE IF cfg.raise_exception THEN Raised(err, None)
    ELSE Returned(cfg.default_return)

\* what handle_errors leaves alone
HandleFrame == UNCHANGED <<retryVars, safeVars, timedVars, topicVars,
                           researchVars, excVars, loggingVars>>

\* a function decorated with one of the configurations is about to be
\* called
HandleInit ==
    /\ \E cfg \in HandleConfigs :
          handled = [pc |-> "ready", cfg |-> cfg, func |-> None,
                     events |-> <<>>, outcome |-> None]
    /\ RetryIdle /\ SafeIdle /\ TimedIdle /\ TopicIdle
    /\ ResearchIdle /\ ExcIdle /\ LoggingIdle

\* return func(*args, **kwargs), func returning
HandleFuncReturns ==
    /\ handled.pc = "ready"
    /\ handled' = [handled EXCEPT
          !.func = Returned([value |-> "result"]),
          !.outcome = Returned([value |-> "result"]),
          !.pc = "returned"]
    /\ HandleFrame

\* func raises an error of class kind, with or without details: the
\* first except clause that matches handles it
HandleFuncRaises(kind, details) ==
    LET err == [kind |-> kind, message |-> "message", details |-> details]
        project == IsInstance(kind, "AIAgentsError")
        out == IF project THEN HandleProjectError(handled.cfg, err)
               ELSE HandleOtherError(handled.cfg, err)
    IN  /\ handled.pc = "ready"
        /\ details => project
        /\ handled' = [handled EXCEPT
              !.func = Raised(err, None),
              !.events = IF project
                         THEN ProjectErrorEvents(handled.cfg, err)
                         ELSE OtherErrorEvents(handled.cfg, err),
              !.outcome = out,
              !.pc = IF out.ok THEN "returned" ELSE "raised"]
        /\ HandleFrame

HandleNext ==
    \/ HandleFuncReturns
    \/ \E kind \in HandleRaisedKinds, details \in BOOLEAN :
          HandleFuncRaises(kind, details)

SpecHandle == HandleInit /\ [][HandleNext]_vars

(* -------------------------------------------------------- setup_logging *)
\* A handler is [kind, call, level]: call is the call of setup_logging
\* that created it, 0 for a handler other code added to the root logger.

\* the values of the level argument
LevelArgs ==
    {"DEBUG", "info", "WARN", "error", "VERBOSE", "basic_format"}

\* level.upper()
UpperOf(level) ==
    CASE level = "info" -> "INFO"
      [] level = "error" -> "ERROR"
      [] level = "basic_format" -> "BASIC_FORMAT"
      [] OTHER -> level

\* the attributes of the logging module among the names above: the
\* levels are ints, BASIC_FORMAT is a str
LoggingAttrs ==
    [name \in {"DEBUG", "INFO", "WARN", "ERROR", "BASIC_FORMAT"} |->
        CASE name = "DEBUG" -> [int |-> TRUE, value |-> 10]
          [] name = "INFO"  -> [int |-> TRUE, value |-> 20]
          [] name = "WARN"  -> [int |-> TRUE, value |-> 30]
          [] name = "ERROR" -> [int |-> TRUE, value |-> 40]
          [] OTHER          -> [int |-> FALSE, value |-> 0]]

\* log_level = getattr(logging, level.upper()), rejected unless it is an
\* int: both failures end in ValueError
ResolveLevel(level) ==
    LET name == UpperOf(level) IN
    IF name \notin DOMAIN LoggingAttrs THEN [ok |-> FALSE, level |-> 0]
    ELSE IF ~LoggingAttrs[name].int THEN [ok |-> FALSE, level |-> 0]
    ELSE [ok |-> TRUE, level |-> LoggingAttrs[name].value]

\* the existing handlers are kept
RemoveHandlers_Keep(handlers) == handlers

\* for handler in root_logger.handlers[:]: root_logger.removeHandler(handler)
RemoveHandlers(handlers) == SelectSeq(handlers, LAMBDA h : FALSE)

\* what setup_logging leaves alone
LoggingFrame == UNCHANGED <<retryVars, safeVars, timedVars, topicVars,
                            researchVars, excVars, handleVars>>

\* setup_logging(level, log_to_file): mkdir_ok and open_ok say whether
\* the log directory can be created and the log file opened
SetupLogging(level, log_to_file, mkdir_ok, open_ok) ==
    LET res == ResolveLevel(level)
        n == setup.calls + 1
        console == [kind |-> "console", call |-> n, level |-> res.level]
        file == [kind |-> "file", call |-> n, level |-> res.level]
        to_file == log_to_file /\ mkdir_ok
    IN  /\ setup.calls < MaxSetups
        /\ IF ~res.ok
           THEN /\ setup' = [setup EXCEPT
                      !.calls = n,
                      !.outcome = [ok |-> FALSE, error |-> "ValueError"],
                      !.warnings = <<>>]
                /\ UNCHANGED root_logger
           ELSE /\ root_logger' =
                      [level |-> res.level,
                       handlers |->
                           RemoveHandlers(root_logger.handlers)
                           \o <<console>>
                           \o (IF to_file /\ open_ok THEN <<file>>
                               ELSE <<>>)]
                /\ setup' = [setup EXCEPT
                      !.calls = n,
                      !.last_ok = n,
                      !.outcome = [ok |-> TRUE, logger |-> "ai_agents",
                                   file_logging |-> to_file],
                      !.warnings =
                          IF log_to_file /\ ~mkdir_ok
                          THEN <<"Could not create log directory">>
                          ELSE IF to_file /\ ~open_ok
                          THEN <<"Could not create log file">>
                          ELSE <<>>]
        /\ LoggingFrame

\* other code adds a handler of its own to the root logger
ForeignAddsHandler ==
    /\ setup.calls < MaxSetups
    /\ \A i \in 1..Len(root_logger.handlers) :
          root_logger.handlers[i].kind # "foreign"
    /\ root_logger' = [root_logger EXCEPT
          !.handlers = Append(@, [kind |-> "foreign", call |-> 0,
                                  level |-> 0])]
    /\ UNCHANGED setup
    /\ LoggingFrame

LoggingNext ==
    \/ \E level \in LevelArgs, log_to_file, mkdir_ok, open_ok \in BOOLEAN :
          SetupLogging(level, log_to_file, mkdir_ok, open_ok)
    \/ ForeignAddsHandler

LoggingInit ==
    RetryIdle /\ SafeIdle /\ TimedIdle /\ TopicIdle /\ UtilIdle

SpecLogging == LoggingInit /\ [][LoggingNext]_vars

(* ----------------------------------------------------- the specification *)
Init == RetryInit /\ SafeIdle /\ TimedIdle /\ TopicIdle /\ UtilIdle

Next ==
    \/ \E e \in Execs : WrapperEnter(e)
    \/ \E e \in Execs : AttemptSucceeds(e)
    \/ \E e \in Execs, kind \in RaisedKinds : AttemptFails(e, kind)
    \/ \E e \in Execs : SleepReturns(e)

Spec == Init /\ [][Next]_vars


(* ------------------------------------------------- retry_on_error: claims *)
\* whether an error of class kind is in the policy's triggering set
Triggering(kind) ==
    \E cls \in policy.exceptions :
        kind = cls \/ BaseOf(kind) = cls \/ BaseOf(BaseOf(kind)) = cls

\* the invocations recorded in h all failed with a triggering error
AllTriggering(h) ==
    \A i \in 1..Len(h) : h[i] # "ok" /\ Triggering(h[i])

Terminated(e) == pc[e] \in {"returned", "raised"}

\* C1: with max_retries >= 0 and a triggering failure on every attempt, the
\* operation is invoked exactly max_retries + 1 times, after which the
\* error of the last attempt is raised; the execution never returns
\* normally and never raises an earlier attempt's error.
C1_ExhaustionRaisesLastError ==
    \A e \in Execs :
        (policy.max_retries >= 0 /\ AllTriggering(history[e])) =>
            LET n == Len(history[e]) IN
            /\ n <= policy.max_retries + 1
            /\ pc[e] # "returned"
            /\ (n = policy.max_retries + 1) <=> (pc[e] = "raised")
            /\ pc[e] = "raised" => outcome[e] = Error(history[e][n], n)

C1_Witness ==
    \E e \in Execs :
        /\ policy.max_retries = 2
        /\ pc[e] = "raised"
        /\ history[e] = <<"ValueError", "ValueError", "ToolError">>
        /\ AllTriggering(history[e])

\* C2: when the first k attempts (0 <= k <= max_retries) fail with a
\* triggering error and attempt k+1 succeeds, the execution returns the
\* result of that attempt, the operation has been invoked exactly k+1
\* times, and with logging enabled exactly k retry events and no
\* exhaustion event have been logged.
C2_SuccessAfterFailures ==
    \A e \in Execs :
        \A i \in 1..Len(history[e]) :
            (policy.max_retries >= 0 /\ history[e][i] = "ok") =>
                LET k == i - 1 IN
                /\ Len(history[e]) = k + 1
                /\ k <= policy.max_retries
                /\ \A j \in 1..k : Triggering(history[e][j])
                /\ pc[e] = "returned"
                /\ outcome[e] = Result(k + 1)
                /\ policy.log_retries =>
                      /\ Len(events[e]) = k
                      /\ \A j \in 1..k : events[e][j].level = "WARNING"

C2_Witness ==
    \E e \in Execs :
        /\ policy.max_retries = 3
        /\ policy.log_retries
        /\ history[e] = <<"ToolError", "ToolError", "ok">>
        /\ pc[e] = "returned"
        /\ Len(events[e]) = 2

\* C3: when the first attempt succeeds the execution returns its result at
\* once: one invocation, no sleep, no log event, whatever the policy.
C3_FirstAttemptSuccess ==
    \A e \in Execs :
        (Len(history[e]) >= 1 /\ history[e][1] = "ok") =>
            /\ history[e] = <<"ok">>
            /\ pc[e] = "returned"
            /\ outcome[e] = Result(1)
            /\ sleeps[e] = <<>>
            /\ events[e] = <<>>

C3_Witness ==
    \E e \in Execs :
        /\ history[e] = <<"ok">>
        /\ pc[e] = "returned"
        /\ policy.max_retries >= 1
        /\ policy.delay > 0
        /\ policy.log_retries

\* C4: a failure whose class is not in the triggering set is raised at
\* once, on whichever attempt it occurs: it is the last invocation, it is
\* the error the execution raises, and it causes no sleep and no log event
\* (the sleeps and events are those of the earlier, retried failures).
C4_NonTriggeringPropagates ==
    \A e \in Execs :
        \A i \in 1..Len(history[e]) :
            (history[e][i] # "ok" /\ ~Triggering(history[e][i])) =>
                /\ i = Len(history[e])
                /\ pc[e] = "raised"
                /\ outcome[e] = Error(history[e][i], i)
                /\ Len(sleeps[e]) = i - 1
                /\ Len(events[e]) = IF policy.log_retries THEN i - 1 ELSE 0
                /\ \A j \in 1..Len(events[e]) : events[e][j].level = "WARNING"

C4_Witness ==
    \E e \in Execs :
        /\ history[e] = <<"ToolError", "ValueError">>
        /\ ~Triggering("ValueError")
        /\ pc[e] = "raised"
        /\ policy.log_retries

RECURSIVE Pow(_, _)
Pow(b, n) == IF n = 0 THEN 1 ELSE b * Pow(b, n - 1)

\* the attempts of h (1-based) that failed with a triggering error while
\* attempts-so-far < max_retries
Retried(h) ==
    {i \in 1..Len(h) :
        h[i] # "ok" /\ Triggering(h[i]) /\ i - 1 < policy.max_retries}

\* C5: the i-th sleep of an execution lasts delay * backoff^(i-1); there is
\* one sleep for each triggering failure on an attempt with
\* attempts-so-far < max_retries and no other, so the final failing attempt
\* is not followed by a sleep and there are at most max_retries sleeps.
C5_ExponentialSchedule ==
    \A e \in Execs :
        /\ \A i \in 1..Len(sleeps[e]) :
              sleeps[e][i] = policy.delay * Pow(policy.backoff, i - 1)
        /\ Len(sleeps[e]) = Cardinality(Retried(history[e]))
        /\ Len(sleeps[e]) <= IF policy.max_retries > 0
                             THEN policy.max_retries ELSE 0
        /\ pc[e] = "raised" => Len(sleeps[e]) = Len(history[e]) - 1

C5_Witness ==
    \E e \in Execs :
        /\ policy.delay = 1
        /\ policy.backoff = 2
        /\ policy.max_retries = 2
        /\ sleeps[e] = <<1, 2>>
        /\ pc[e] = "raised"
        /\ Len(history[e]) = 3

\* the execution raised because its retries were exhausted
Exhausted(e) ==
    /\ pc[e] = "raised"
    /\ Triggering(outcome[e].kind)

\* what sleeps and outcome must be, given the invocations' outcomes and the
\* policy without its log_retries flag
ExpectedWithoutLogging(e) ==
    LET h == history[e]
        n == Len(h)
    IN  /\ sleeps[e] = [i \in 1..Cardinality(Retried(h)) |->
                           policy.delay * Pow(policy.backoff, i - 1)]
        /\ (policy.max_retries >= 0 /\ Terminated(e)) =>
              /\ n >= 1
              /\ IF h[n] = "ok"
                 THEN pc[e] = "returned" /\ outcome[e] = Result(n)
                 ELSE pc[e] = "raised" /\ outcome[e] = Error(h[n], n)
        /\ (policy.max_retries >= 0 /\ n >= 1) =>
              (Terminated(e) <=>
                  \/ h[n] = "ok"
                  \/ ~Triggering(h[n])
                  \/ n = policy.max_retries + 1)

\* C6 as stated: with logging enabled each retry is reported by one event
\* carrying the attempt index and the delay about to be slept, and the
\* exhaustion is reported by one event carrying the attempt index and the
\* delay.
C6_AsStated ==
    \A e \in Execs :
        policy.log_retries =>
            /\ \A i \in 1..Len(sleeps[e]) :
                  /\ events[e][i].attempt = i
                  /\ events[e][i].delay = sleeps[e][i]
            /\ Exhausted(e) =>
                  LET ev == events[e][Len(events[e])] IN
                  /\ ev.level = "ERROR"
                  /\ ev.total = Len(history[e])
                  /\ "delay" \in DOMAIN ev

\* C6, amended: with logging enabled each retry is reported by one WARNING
\* event carrying the attempt index, the number of attempts, the error and
\* the delay about to be slept, logged before that sleep; the exhaustion is
\* reported by one ERROR event carrying the number of attempts
\* (max_retries + 1, the index of the final attempt) and no delay.  With
\* logging disabled no event is logged, and the invocations, the sleeps and
\* the outcome do not depend on the flag.
C6_RetryAndExhaustionEvents ==
    \A e \in Execs :
        /\ IF policy.log_retries
           THEN /\ Len(events[e]) =
                       Len(sleeps[e]) + (IF Exhausted(e) THEN 1 ELSE 0)
                /\ \A i \in 1..Len(sleeps[e]) :
                      events[e][i] =
                          [level |-> "WARNING", attempt |-> i,
                           total |-> policy.max_retries + 1,
                           error |-> history[e][i], delay |-> sleeps[e][i]]
                /\ Exhausted(e) =>
                      events[e][Len(events[e])] =
                          [level |-> "ERROR", total |-> Len(history[e])]
           ELSE events[e] = <<>>
        /\ ExpectedWithoutLogging(e)

C6_Witness ==
    \E e \in Execs :
        /\ policy.log_retries
        /\ policy.max_retries = 2
        /\ Exhausted(e)
        /\ Len(events[e]) = 3
        /\ events[e][3].level = "ERROR"
        /\ \E f \in Execs : pc[f] = "sleeping" /\ Len(events[f]) = 1

\* the locals and the records of execution e
LocalState(e) ==
    <<attempt[e], current_delay[e], last_exception[e], history[e],
      sleeps[e], events[e], outcome[e]>>

\* C7: the attempt counter and the current delay are private to an
\* execution: no execution modifies the policy; each starts at attempt 0
\* with the policy's initial delay; a step of another execution leaves its
\* state alone; so at every moment its delay is delay * backoff^attempt and
\* its sleeps are its own schedule, however the executions interleave.
C7_PrivateAttemptAndDelay ==
    /\ [][policy' = policy]_vars
    /\ [][\A e \in Execs :
            (pc[e] = "idle" /\ pc'[e] # "idle") =>
                /\ attempt'[e] = 0
                /\ current_delay'[e] = policy.delay
                /\ sleeps'[e] = <<>>]_vars
    /\ [][\A e \in Execs :
            (pc'[e] = pc[e]) => (LocalState(e)' = LocalState(e))]_vars
    /\ [](\A e \in Execs :
            pc[e] # "idle" =>
                /\ current_delay[e] =
                       policy.delay * Pow(policy.backoff, attempt[e])
                /\ Len(sleeps[e]) =
                       attempt[e] + (IF pc[e] = "sleeping" THEN 1 ELSE 0)
                /\ \A i \in 1..Len(sleeps[e]) :
                       sleeps[e][i] = policy.delay * Pow(policy.backoff, i - 1))

C7_Witness ==
    /\ policy.delay = 1
    /\ policy.backoff = 2
    /\ pc["e1"] = "sleeping" /\ attempt["e1"] = 1 /\ current_delay["e1"] = 2
    /\ pc["e2"] = "call" /\ attempt["e2"] = 0 /\ current_delay["e2"] = 1
    /\ Len(history["e2"]) = 0

\* C8: while one execution is in its backoff sleep, every other execution
\* that has not finished can take its next step, and that step leaves the
\* sleeper asleep: the sleep blocks its caller only.
C8_SleepBlocksOnlyCaller ==
    \A e \in Execs : \A f \in Execs \ {e} :
        (pc[e] = "sleeping" /\ ~Terminated(f)) =>
            ENABLED (ExecStep(f) /\ pc'[e] = "sleeping")

C8_Witness ==
    /\ pc["e1"] = "sleeping"
    /\ pc["e2"] = "call"
    /\ Len(history["e2"]) = 1
    /\ Len(history["e1"]) = 1

(* --------------------------------------------------- safe_execute: claims *)
\* the events safe_execute logged during its current call
SafeEventsOfCall ==
    SelectSeq(safe_events, LAMBDA ev : ev.call = safe.calls)

\* C9 as stated: safe_execute never propagates a failure of the operation;
\* when the operation fails it logs the error (operation name and message)
\* and returns the supplied default; when it succeeds it returns the
\* operation's result.
C9_AsStated ==
    /\ safe.pc # "raised"
    /\ (safe.pc = "returned" /\ IsError(safe.result)) =>
          /\ safe.outcome = safe.default_return
          /\ SafeEventsOfCall =
                <<[level |-> "ERROR", call |-> safe.calls,
                   func |-> safe.func, error |-> safe.result]>>
    /\ (safe.pc = "returned" /\ ~IsError(safe.result)) =>
          safe.outcome = safe.result

\* C9, amended: safe_execute never propagates a failure of the operation;
\* when the operation fails it returns the supplied default and, when
\* log_error is set (the default), logs one error event with the operation
\* name and the error, and logs nothing when log_error is not set; when the
\* operation succeeds it returns the operation's result, the default is
\* not used and nothing is logged.
C9_SafeExecuteReturnsDefault ==
    /\ safe.pc # "raised"
    /\ (safe.pc = "returned" /\ IsError(safe.result)) =>
          /\ safe.outcome = safe.default_return
          /\ SafeEventsOfCall =
                IF safe.log_error
                THEN <<[level |-> "ERROR", call |-> safe.calls,
                        func |-> safe.func, error |-> safe.result]>>
                ELSE <<>>
    /\ (safe.pc = "returned" /\ ~IsError(safe.result)) =>
          /\ safe.outcome = safe.result
          /\ safe.outcome # safe.default_return
          /\ SafeEventsOfCall = <<>>
    /\ safe.pc = "call" => SafeEventsOfCall = <<>>

C9_Witness ==
    /\ safe.pc = "returned"
    /\ safe.calls = 2
    /\ safe.result = Error("ValueError", 2)
    /\ safe.outcome = [value |-> "default"]
    /\ safe.log_error
    /\ Len(safe_events) = 1

(* --------------------------------------------- log_execution_time: claims *)
\* the events log_execution_time logged during its current call
TimedEventsOfCall ==
    SelectSeq(timed_events, LAMBDA ev : ev.call = timed.calls)

\* C10: log_execution_time is transparent: the caller gets the operation's
\* result on success and the same error on failure, and in both cases
\* exactly one duration event is logged, after the operation finishes and
\* before the outcome reaches the caller.
C10_TimedIsTransparent ==
    /\ timed.pc = "returned" =>
          /\ ~IsError(timed.result)
          /\ timed.outcome = timed.result
    /\ timed.pc = "raised" =>
          /\ IsError(timed.result)
          /\ timed.outcome = timed.result
    /\ timed.pc \in {"call", "finished"} =>
          /\ TimedEventsOfCall = <<>>
          /\ timed.outcome = None
    /\ timed.pc = "logged" => timed.outcome = None
    /\ timed.pc \in {"logged", "returned", "raised"} =>
          /\ timed.result # None
          /\ Len(TimedEventsOfCall) = 1
          /\ TimedEventsOfCall[1].func = timed.func
          /\ TimedEventsOfCall[1].duration = now - timed.start_time
          /\ TimedEventsOfCall[1].level =
                IF IsError(timed.result) THEN "ERROR" ELSE "DEBUG"
          /\ IsError(timed.result) =>
                TimedEventsOfCall[1].error = timed.result

C10_Witness ==
    /\ timed.pc = "raised"
    /\ timed.calls = 2
    /\ timed.outcome = Error("ToolError", 2)
    /\ timed.start_time = 1
    /\ now = 3
    /\ Len(timed_events) = 2
    /\ timed_events[1].level = "DEBUG"
    /\ timed_events[2].level = "ERROR"

(* ------------------------------------------------ _validate_topic: claims *)
\* the call of _validate_topic has returned or raised
Validated == topic_pc \in {"returned", "raised"}

\* the positions of the characters of s that are not whitespace, in order
NonSpacePositions(s) ==
    SelectSeq([i \in 1..Len(s) |-> i], LAMBDA i : ~IsSpace(s[i]))

\* s without its leading and trailing whitespace
Trimmed(s) ==
    LET at == NonSpacePositions(s) IN
    IF at = <<>> THEN <<>> ELSE SubSeq(s, at[1], at[Len(at)])

\* the length of s after trimming
TrimmedLen(s) == Len(Trimmed(s))

\* s contains one of the characters < > { }
ContainsForbidden(s) ==
    \E i \in 1..Len(s) : s[i] = "<" \/ s[i] = ">" \/ s[i] = "{" \/ s[i] = "}"

\* s in lower case
Folded(s) == [i \in 1..Len(s) |-> Lower(s[i])]

\* s contains the lower-case word w, compared case-insensitively
ContainsWord(s, w) ==
    LET f == Folded(s) IN
    \E i \in 1..(Len(s) - Len(w) + 1) :
        f[i] = w[1] /\ SubSeq(f, i, i + Len(w) - 1) = w

\* s contains "on", one or more word characters, optional whitespace, "="
ContainsEventHandler(s) ==
    LET f == Folded(s) IN
    \E l \in 4..Len(s) :
        /\ s[l] = "="
        /\ \E m \in 3..(l - 1) :
              /\ \A k \in (m + 1)..(l - 1) : IsSpace(s[k])
              /\ \E i \in 1..(m - 2) :
                    /\ f[i] = "o" /\ f[i + 1] = "n"
                    /\ \A k \in (i + 2)..m : IsWord(s[k])

\* s contains "--" or ";", optional whitespace, and one of DROP, DELETE,
\* INSERT, UPDATE
ContainsSqlMutation(s) ==
    LET f == Folded(s) IN
    \E w \in {<<"d", "r", "o", "p">>,
              <<"d", "e", "l", "e", "t", "e">>,
              <<"i", "n", "s", "e", "r", "t">>,
              <<"u", "p", "d", "a", "t", "e">>} :
        \E l \in 2..(Len(s) - Len(w) + 1) :
            /\ SubSeq(f, l, l + Len(w) - 1) = w
            /\ \E i \in 1..(l - 1) :
                  /\ \A k \in (i + 1)..(l - 1) : IsSpace(s[k])
                  /\ s[i] = ";" \/ (i >= 2 /\ s[i] = "-" /\ s[i - 1] = "-")

\* C11: an input whose trimmed length is less than 3 is rejected, with
\* EMPTY when that length is 0 and with TOO_SHORT when it is 1 or 2,
\* whatever its characters.
C11_ShortTopicsRejected ==
    (Validated /\ TrimmedLen(topic_arg) < 3) =>
        /\ topic_pc = "raised"
        /\ topic_ret.message =
              IF TrimmedLen(topic_arg) = 0 THEN "EMPTY" ELSE "TOO_SHORT"

C11_Witness ==
    /\ topic_pc = "raised"
    /\ topic_arg = <<"\t", "{", "}">>
    /\ topic_ret.message = "TOO_SHORT"

\* C12: an input whose trimmed length is greater than 500 is rejected with
\* TOO_LONG, whatever its characters; leading and trailing whitespace is
\* not counted.
C12_LongTopicsRejected ==
    (Validated /\ TrimmedLen(topic_arg) > 500) =>
        /\ topic_pc = "raised"
        /\ topic_ret.message = "TOO_LONG"

C12_Witness ==
    /\ topic_pc = "raised"
    /\ topic_arg = <<"}">> \o Fill("a", 500) \o <<" ">>
    /\ TrimmedLen(topic_arg) = 501
    /\ topic_ret.message = "TOO_LONG"

\* C13: an input whose trimmed length is exactly 3 or exactly 500, with no
\* forbidden character and no suspicious pattern, is accepted.
C13_InclusiveBounds ==
    (/\ Validated
     /\ TrimmedLen(topic_arg) \in {3, 500}
     /\ ~ContainsForbidden(topic_arg)
     /\ ~ContainsWord(topic_arg, <<"j", "a", "v", "a", "s", "c", "r", "i", "p", "t", ":">>)
     /\ ~ContainsEventHandler(topic_arg)
     /\ ~ContainsSqlMutation(topic_arg)) =>
        topic_pc = "returned"

C13_Witness ==
    /\ topic_pc = "returned"
    /\ topic_calls = 1
    /\ topic_arg = <<"\t", " ">> \o Fill("a", 500) \o <<" ">>
    /\ Len(topic_ret.value) = 500

\* C14 as stated: every input containing one of < > { } is rejected with
\* FORBIDDEN_CHARS, whatever else it contains.
C14_AsStated ==
    (Validated /\ ContainsForbidden(topic_arg)) =>
        /\ topic_pc = "raised"
        /\ topic_ret.message = "FORBIDDEN_CHARS"

\* C14, amended: every input containing one of < > { } is rejected, and
\* with FORBIDDEN_CHARS when its trimmed length is between 3 and 500,
\* whatever else it contains; it never reports EMPTY, but TOO_SHORT when
\* its trimmed length is 1 or 2 and TOO_LONG when it is more than 500.
C14_ForbiddenCharsRejected ==
    (Validated /\ ContainsForbidden(topic_arg)) =>
        /\ topic_pc = "raised"
        /\ topic_ret.message =
              IF TrimmedLen(topic_arg) < 3 THEN "TOO_SHORT"
              ELSE IF TrimmedLen(topic_arg) > 500 THEN "TOO_LONG"
              ELSE "FORBIDDEN_CHARS"

C14_Witness ==
    /\ topic_pc = "raised"
    /\ topic_arg = <<"{", " ", "}">>
    /\ topic_ret.message = "FORBIDDEN_CHARS"

\* s contains "<script", characters other than ">", and ">"
ContainsScriptTag(s) ==
    LET f == Folded(s) IN
    \E j \in 8..Len(s) :
        /\ s[j] = ">"
        /\ \E i \in 1..(j - 7) :
              /\ SubSeq(f, i, i + 6) = <<"<", "s", "c", "r", "i", "p", "t">>
              /\ \A k \in (i + 7)..(j - 1) : s[k] # ">"

\* s matches one of the suspicious patterns
ContainsSuspicious(s) ==
    \/ ContainsScriptTag(s)
    \/ ContainsWord(s, <<"j", "a", "v", "a", "s", "c", "r", "i", "p", "t", ":">>)
    \/ ContainsEventHandler(s)
    \/ ContainsSqlMutation(s)

\* the first rule s violates, in the order emptiness, too short, too long,
\* forbidden characters, suspicious patterns
FirstViolatedRule(s) ==
    IF TrimmedLen(s) = 0 THEN "EMPTY"
    ELSE IF TrimmedLen(s) < 3 THEN "TOO_SHORT"
    ELSE IF TrimmedLen(s) > 500 THEN "TOO_LONG"
    ELSE IF ContainsForbidden(Trimmed(s)) THEN "FORBIDDEN_CHARS"
    ELSE IF ContainsSuspicious(Trimmed(s)) THEN "SUSPICIOUS_CONTENT"
    ELSE "NONE"

\* "<script>alert(1)</script> AI"
ScriptExample ==
    <<"<", "s", "c", "r", "i", "p", "t", ">", "a", "l",
      "e", "r", "t", "(", "1", ")", "<", "/", "s", "c",
      "r", "i", "p", "t", ">", " ", "A", "I">>

\* C15: the error reported is that of the first rule the input violates,
\* in the order emptiness, too short, too long, forbidden characters,
\* suspicious patterns, and the input is accepted only when it violates
\* none; "<script>alert(1)</script> AI" reports FORBIDDEN_CHARS.
C15_FirstViolatedRuleReported ==
    Validated =>
        /\ topic_pc = "raised" =>
              topic_ret.message = FirstViolatedRule(topic_arg)
        /\ topic_pc = "returned" => FirstViolatedRule(topic_arg) = "NONE"
        /\ topic_arg = ScriptExample =>
              topic_pc = "raised" /\ topic_ret.message = "FORBIDDEN_CHARS"

C15_Witness ==
    /\ topic_pc = "raised"
    /\ topic_arg = ScriptExample
    /\ ContainsForbidden(topic_arg)
    /\ ContainsSuspicious(topic_arg)
    /\ topic_ret.message = "FORBIDDEN_CHARS"

\* "DROP TABLE users; -- AI"
DropTableExample ==
    <<"D", "R", "O", "P", " ", "T", "A", "B", "L", "E",
      " ", "u", "s", "e", "r", "s", ";", " ", "-", "-",
      " ", "A", "I">>

\* C16: the topic "DROP TABLE users; -- AI" is rejected with
\* SUSPICIOUS_CONTENT.
C16_DropTableRejected ==
    (Validated /\ topic_arg = DropTableExample) =>
        /\ topic_pc = "raised"
        /\ topic_ret.message = "SUSPICIOUS_CONTENT"

\* C17: an input whose trimmed length is between 3 and 500 and which has
\* no forbidden character is rejected with SUSPICIOUS_CONTENT exactly when
\* its trimmed string contains, case-insensitively, "javascript:", or "on"
\* with word characters, optional whitespace and "=", or "--" or ";" with
\* optional whitespace and DROP, DELETE, INSERT or UPDATE; otherwise it is
\* accepted.
C17_SuspiciousExactly ==
    (/\ Validated
     /\ TrimmedLen(topic_arg) \in 3..500
     /\ ~ContainsForbidden(topic_arg)) =>
        IF \/ ContainsWord(Trimmed(topic_arg), <<"j", "a", "v", "a", "s", "c", "r", "i", "p", "t", ":">>)
           \/ ContainsEventHandler(Trimmed(topic_arg))
           \/ ContainsSqlMutation(Trimmed(topic_arg))
        THEN topic_pc = "raised" /\ topic_ret.message = "SUSPICIOUS_CONTENT"
        ELSE topic_pc = "returned"

C17_Witness ==
    /\ topic_pc = "raised"
    /\ topic_ret.message = "SUSPICIOUS_CONTENT"
    /\ ~ContainsForbidden(topic_arg)
    /\ ContainsWord(topic_arg, <<"j", "a", "v", "a", "s", "c", "r", "i", "p", "t", ":">>)
    /\ Folded(topic_arg) # topic_arg

\* the characters of s that are not whitespace, in order
NonSpaceChars(s) == SelectSeq(s, LAMBDA c : ~IsSpace(c))

\* s has no leading or trailing whitespace, and its only whitespace is
\* single spaces between characters that are not whitespace
SingleSpaced(s) ==
    \A i \in 1..Len(s) :
        IsSpace(s[i]) =>
            /\ s[i] = " "
            /\ 1 < i /\ i < Len(s)
            /\ ~IsSpace(s[i - 1]) /\ ~IsSpace(s[i + 1])

\* "  AI   in   education  "
EducationExample ==
    <<" ", " ", "A", "I", " ", " ", " ", "i", "n", " ", " ", " ", "e", "d", "u", "c", "a", "t", "i", "o", "n", " ", " ">>

\* "AI in education"
EducationTopic ==
    <<"A", "I", " ", "i", "n", " ", "e", "d", "u", "c", "a", "t", "i", "o", "n">>

\* C18: the value returned has the input's non-whitespace characters,
\* unchanged and in order, no leading or trailing whitespace, and exactly
\* one space wherever the input has a run of whitespace between two of
\* them; "  AI   in   education  " yields "AI in education".
C18_WhitespaceCollapsed ==
    topic_pc = "returned" =>
        LET v == topic_ret.value
            a == NonSpacePositions(topic_arg)
            b == NonSpacePositions(v)
        IN  /\ NonSpaceChars(v) = NonSpaceChars(topic_arg)
            /\ SingleSpaced(v)
            /\ Len(a) = Len(b)
            /\ \A k \in 1..(Len(a) - 1) :
                  b[k + 1] - b[k] = IF a[k + 1] - a[k] > 1 THEN 2 ELSE 1
            /\ topic_arg = EducationExample => v = EducationTopic

C18_Witness ==
    /\ topic_pc = "returned"
    /\ topic_arg = EducationExample
    /\ topic_ret.value = EducationTopic

\* C19: every value returned has a length between 3 and 500, none of
\* < > { }, no match of a suspicious pattern, no leading or trailing
\* whitespace and no whitespace other than single spaces.
C19_ReturnedTopicInvariants ==
    topic_pc = "returned" =>
        /\ Len(topic_ret.value) \in 3..500
        /\ ~ContainsForbidden(topic_ret.value)
        /\ ~ContainsSuspicious(topic_ret.value)
        /\ SingleSpaced(topic_ret.value)

C19_Witness ==
    /\ topic_pc = "returned"
    /\ topic_arg = <<"a", " ", "\t", "\n", " ", "b">>
    /\ TrimmedLen(topic_arg) > Len(topic_ret.value)
    /\ topic_ret.value = <<"a", " ", "b">>

\* C20: validating a value that validation returned succeeds and returns
\* that value unchanged.
C20_Idempotent ==
    (topic_calls = 2 /\ Validated) =>
        /\ topic_pc = "returned"
        /\ topic_ret.value = topic_arg

C20_Witness ==
    /\ topic_calls = 2
    /\ topic_pc = "returned"
    /\ topic_arg = EducationTopic
    /\ topic_ret.value = EducationTopic

\* C21: every error _validate_topic raises is of the ValidationError kind,
\* so a handler of ValidationError catches every rejection.
C21_RejectionsAreValidationErrors ==
    topic_pc = "raised" => IsInstance(topic_ret.class, "ValidationError")

(* ------------------------------------------------- research: claims *)
\* the sequence seq has the element x
Has(seq, x) == \E i \in 1..Len(seq) : seq[i] = x

\* the tools and chains that are handed the topic itself
TopicConsumers == {"search_web", "chains.research"}

\* t is s with its leading and trailing whitespace removed and every run
\* of whitespace replaced by one space
IsNormalizedFormOf(t, s) ==
    LET a == NonSpacePositions(s)
        b == NonSpacePositions(t)
    IN  /\ NonSpaceChars(t) = NonSpaceChars(s)
        /\ SingleSpaced(t)
        /\ \A k \in 1..(Len(a) - 1) :
              b[k + 1] - b[k] = IF a[k + 1] - a[k] > 1 THEN 2 ELSE 1

\* C22: in research no tool runs before the validation; when the input is
\* rejected the validator's error reaches the caller of research, no tool
\* having been called and no result returned; when it is accepted every
\* tool that is handed the topic is handed the normalized topic.
C22_ValidationBeforeTools ==
    /\ research.pc = "start" =>
          research.tool_calls = <<>> /\ history["e1"] = <<>>
    /\ (research.pc # "idle"
        /\ FirstViolatedRule(research.input) # "NONE") =>
          /\ research.pc \in {"start", "raised"}
          /\ research.tool_calls = <<>> /\ history["e1"] = <<>>
          /\ research.pc = "raised" =>
                /\ ~research.outcome.ok
                /\ research.outcome.message =
                      FirstViolatedRule(research.input)
    /\ \A i \in 1..Len(research.tool_calls) :
          research.tool_calls[i].tool \in TopicConsumers =>
              /\ FirstViolatedRule(research.input) = "NONE"
              /\ IsNormalizedFormOf(research.tool_calls[i].arg,
                                    research.input)

C22_Witness ==
    /\ research.pc = "returned"
    /\ research.input = EducationExample
    /\ research.tool_calls[1] =
          [tool |-> "search_web", arg |-> EducationTopic]
    /\ Has(research.tool_calls,
           [tool |-> "save_to_memory", arg |-> <<"results">>])

\* C28: when every attempt of the search fails, the search is attempted
\* 3 times, and research then takes the demo search results and carries
\* on with the remaining steps up to returning its results.
C28_FailedSearchFallsBackToDemo ==
    (/\ research.pc \in {"returned", "raised"}
     /\ history["e1"] # <<>>
     /\ \A i \in 1..Len(history["e1"]) : history["e1"][i] = "ToolError") =>
        /\ Len(history["e1"]) = 3
        /\ research.pc = "returned"
        /\ Has(research.results, <<"search", "demo">>)
        /\ Has(research.tool_calls,
               [tool |-> "analyze_data", arg |-> <<"search_results">>])

(* ------------------------------- retry_on_error: termination, bounds *)
\* a bound on the steps the execution e has left: two per invocation
\* still allowed (the invocation and the sleep after it), one to enter
Remaining(e) ==
    LET left == policy.max_retries + 1 - Len(history[e]) IN
    CASE pc[e] = "idle"     -> 2 * (policy.max_retries + 1) + 1
      [] pc[e] = "call"     -> 2 * left
      [] pc[e] = "sleeping" -> 2 * left + 1
      [] OTHER              -> 0

\* C24: with max_retries >= 0, and every attempt and every sleep
\* returning, each execution terminates after at most max_retries + 1
\* invocations and at most max_retries sleeps, whatever the attempts do:
\* the counts stay within these bounds, an execution that has not
\* terminated can always take a step, and each of its steps lowers a
\* bound on the steps it has left, which is 0 only once it has terminated.
C24_TerminatesWithinBounds ==
    /\ [](\A e \in Execs :
            policy.max_retries >= 0 =>
                /\ Len(history[e]) <= policy.max_retries + 1
                /\ Len(sleeps[e]) <= policy.max_retries
                /\ Remaining(e) >= 0
                /\ (Remaining(e) = 0) <=> Terminated(e)
                /\ ~Terminated(e) => ENABLED ExecStep(e))
    /\ [][\A e \in Execs :
            (policy.max_retries >= 0
             /\ <<pc[e], history[e], sleeps[e]>>' #
                <<pc[e], history[e], sleeps[e]>>) =>
                Remaining(e)' < Remaining(e)]_vars

C24_Witness ==
    \E e \in Execs :
        /\ policy.max_retries = 3
        /\ pc[e] = "raised"
        /\ Len(history[e]) = 4
        /\ Len(sleeps[e]) = 3
        /\ history[e][4] = "ValueError"

\* C25: whatever max_retries is, an execution that has ended has invoked
\* the operation at least once and has returned the result of its last
\* invocation or raised the error of one of its invocations; with
\* max_retries = 0 it has invoked it exactly once and not slept; with
\* max_retries < 0 it has not returned None without an invocation.
C25_InvokedAtLeastOnce ==
    \A e \in Execs :
        Terminated(e) =>
            LET n == Len(history[e]) IN
            /\ n >= 1
            /\ pc[e] = "returned" => outcome[e] = Result(n)
            /\ pc[e] = "raised" =>
                  \E i \in 1..n : outcome[e] = Error(history[e][i], i)
            /\ policy.max_retries = 0 => n = 1 /\ sleeps[e] = <<>>

(* ------------------------------------------------ exceptions: claims *)
\* the mapping held by the error i: its keys and the values bound to them
DetailsOf(h, i) == h[instances[i].details].items

\* C23: every error, of the base class or a subclass, has a message and a
\* details mapping of its own, shared with no other error and with no
\* mapping of the caller; the mapping starts empty when no details are
\* given and as a copy of the caller's keys and values when they are;
\* a step that changes a caller's mapping changes the mapping of no
\* error, and a step that changes one error's mapping changes no other's.
C23_ErrorsOwnTheirDetails ==
    /\ [](\A i \in 1..Len(instances) :
            /\ instances[i].message \in Messages
            /\ heap[instances[i].details].type = "dict"
            /\ instances[i].details \notin caller_refs
            /\ \A j \in 1..Len(instances) :
                  j # i => instances[j].details # instances[i].details)
    /\ [][Len(instances') = Len(instances) + 1 =>
            LET new == instances'[Len(instances')] IN
            heap'[new.details].items =
                IF new.given = None THEN EmptyDict.items
                ELSE heap[new.given.ref].items]_vars
    /\ [][\A i \in 1..Len(instances) :
            DetailsOf(heap', i) # DetailsOf(heap, i) =>
                /\ \A r \in caller_refs : heap'[r].items = heap[r].items
                /\ \A j \in 1..Len(instances) :
                      j # i => DetailsOf(heap', j) = DetailsOf(heap, j)]_vars

C23_Witness ==
    \E i, j \in 1..Len(instances) :
        /\ instances[i].given # None
        /\ instances[i].class = "ValidationError"
        /\ DetailsOf(heap, i) # EmptyDict.items
        /\ heap[instances[i].given.ref].items = EmptyDict.items
        /\ instances[j].given = None
        /\ instances[j].class = "AIAgentsError"
        /\ DetailsOf(heap, j) = EmptyDict.items

(* --------------------------------------------- handle_errors: claims *)
\* the classes of the AIAgentsError family
ProjectFamily ==
    {"AIAgentsError", "ConfigurationError", "APIKeyError", "ModelError",
     "ToolError", "ResearchError", "ValidationError", "FileOperationError",
     "NetworkError", "AgentExecutionError"}

\* C26: on success the wrapper of handle_errors returns the operation's
\* result.  On a failure of the AIAgentsError family it re-raises the
\* original error iff raise_exception, else returns default_return,
\* whatever exception_type is.  On any other failure it raises a new
\* error of exception_type chained to the original when exception_type is
\* set, whatever raise_exception is; else it re-raises the original iff
\* raise_exception, else returns default_return.
C26_HandleErrorsOutcome ==
    handled.pc \in {"returned", "raised"} =>
        LET c == handled.cfg
            f == handled.func
            o == handled.outcome
            original == /\ handled.pc = "raised"
                        /\ o.error = f.error
                        /\ o.cause = None
            default == /\ handled.pc = "returned"
                       /\ o.value = c.default_return
        IN  IF f.ok THEN handled.pc = "returned" /\ o.value = f.value
            ELSE IF f.error.kind \in ProjectFamily
            THEN IF c.raise_exception THEN original ELSE default
            ELSE IF c.exception_type # None
            THEN /\ handled.pc = "raised"
                 /\ o.error.kind = c.exception_type.class
                 /\ o.cause = f.error
            ELSE IF c.raise_exception THEN original ELSE default

C26_Witness ==
    /\ handled.pc = "raised"
    /\ handled.func.error.kind = "ValueError"
    /\ ~handled.cfg.raise_exception
    /\ handled.cfg.exception_type = [class |-> "ResearchError"]
    /\ handled.outcome.error.kind = "ResearchError"
    /\ handled.outcome.cause = handled.func.error

(* --------------------------------------------- setup_logging: claims *)
\* the handlers of the root logger of kind k
HandlersOfKind(r, k) == SelectSeq(r.handlers, LAMBDA h : h.kind = k)

\* C27: a successful call of setup_logging leaves the root logger with
\* exactly the handlers that call created, one console handler and at
\* most one file handler, whatever was installed before; a call with an
\* invalid level fails with ValueError and leaves the root logger's level
\* and handlers as they were; so the handlers of earlier calls never
\* accumulate.
C27_HandlersDoNotAccumulate ==
    /\ [](/\ Len(HandlersOfKind(root_logger, "console")) <= 1
          /\ Len(HandlersOfKind(root_logger, "file")) <= 1
          /\ \A i \in 1..Len(root_logger.handlers) :
                root_logger.handlers[i].kind # "foreign" =>
                    root_logger.handlers[i].call = setup.last_ok)
    /\ [][setup'.calls = setup.calls + 1 =>
            IF setup'.outcome.ok
            THEN /\ Len(HandlersOfKind(root_logger', "console")) = 1
                 /\ Len(HandlersOfKind(root_logger', "foreign")) = 0
                 /\ \A i \in 1..Len(root_logger'.handlers) :
                       /\ root_logger'.handlers[i].call = setup'.calls
                       /\ root_logger'.handlers[i].level = root_logger'.level
            ELSE /\ setup'.outcome.error = "ValueError"
                 /\ root_logger' = root_logger]_vars

C27_Witness ==
    /\ setup.calls = 3
    /\ setup.last_ok = 2
    /\ ~setup.outcome.ok
    /\ root_logger.level = 10
    /\ root_logger.handlers =
          <<[kind |-> "console", call |-> 2, level |-> 10],
            [kind |-> "file", call |-> 2, level |-> 10]>>

====
